---- MODULE Spec2Model ----
(***************************************************************************)
(* Abdullah Slack (src/app.py): a Streamlit script over a hosted table     *)
(* store.  The model has the persistent tables (messages,                  *)
(* message_reactions, channel_members, channels, workspaces,               *)
(* user_profiles), the per-session st.session_state (current_channel,      *)
(* current_dm_user, view_mode, message_count, last_refresh,                *)
(* demo_messages) and the clock.  Every helper function of app.py is an    *)
(* operator over the tables it reads; one run of the script for one        *)
(* browser event is one action.                                            *)
(*                                                                         *)
(* Time is counted in whole seconds since 2024-01-15T10:00:00Z, the        *)
(* created_at of the first seeded demo message.                            *)
(***************************************************************************)
EXTENDS Integers, Sequences, FiniteSets, TLC

\* ------------------------------------------------------------------ bounds
\* clock value of the initial state, and how far the clock may advance
StartTime == 100
MaxTicks == 1
\* rows the persistent tables may gain during one behaviour
MaxPosts == 2
\* rows message_reactions may hold, channels the table may hold
MaxReactions == 3
MaxChannels == 2
\* rows the messages table may hold where three users write
MaxStored == 2

\* -------------------------------------------------------- program constants
\* get_channel_messages(..., limit=50), get_direct_messages(..., limit=50)
DefaultLimit == 50
\* time.time() - last_refresh > 5
RefreshInterval == 5
\* "created_at": "2024-01-15T10:00:00Z" and "2024-01-15T10:01:00Z"
Seed1Time == 0
Seed2Time == 60
\* join_channel(auth_supabase, user_id, 1), create_channel(..., 1, ...)
GeneralChannelId == "1"
DefaultWorkspaceId == "1"

\* Python's None (also SQL NULL)
None == "None"

\* None returned where a row (a dict) is expected; a dict is truthy
NoRow == [id |-> None]
Truthy(row) == row # NoRow

\* authenticated users (auth ids)
Users == {"A", "B"}
\* the users whose browser session the model follows; the other users act
\* on the tables only
Sessions == {"A"}
\* demo_user_ids, the same list at lines 291, 372 and 888
demo_user_ids == {"a1b2c3d4-e5f6-7890-abcd-ef1234567890",
                  "b2c3d4e5-f6g7-8901-bcde-fg2345678901"}
\* demo_user_names, the fixed name table of get_direct_messages
demo_user_names(id) ==
    IF id = "a1b2c3d4-e5f6-7890-abcd-ef1234567890"
    THEN [display_name |-> "Alex Johnson", username |-> "alex"]
    ELSE IF id = "b2c3d4e5-f6g7-8901-bcde-fg2345678901"
    THEN [display_name |-> "Sarah Chen", username |-> "sarah"]
    ELSE [display_name |-> "Demo User", username |-> "demo"]

\* the placeholder profile of a missing user_profiles row
UnknownProfile == [display_name |-> "Unknown User", username |-> "unknown"]

\* ------------------------------------------------------------------- text
\* A message text is a sequence of characters; Whitespace is what
\* str.strip() removes.
Whitespace == {" ", "\t", "\n"}

RECURSIVE LStrip(_)
LStrip(s) ==
    IF s # <<>> /\ Head(s) \in Whitespace THEN LStrip(Tail(s)) ELSE s

RECURSIVE RStrip(_)
RStrip(s) ==
    IF s # <<>> /\ s[Len(s)] \in Whitespace
    THEN RStrip(SubSeq(s, 1, Len(s) - 1))
    ELSE s

\* content.strip()
Strip(s) == RStrip(LStrip(s))

\* the texts typed into the message box
Contents == { <<>>, <<" ", "\t">>, <<" ", "h", " ">> }

\* a text that is empty or only whitespace
IsBlank(s) == Strip(s) = <<>>

\* ---------------------------------------------------------------- helpers
Last(s) == s[Len(s)]

Range(s) == { s[i] : i \in 1..Len(s) }

\* every ordering of the set S: a SELECT without ORDER BY fixes none
RECURSIVE AnyOrder(_)
AnyOrder(S) ==
    IF S = {} THEN { <<>> }
    ELSE UNION { { <<r>> \o t : t \in AnyOrder(S \ {r}) } : r \in S }

\* the sum of f over S
RECURSIVE SumOver(_, _)
SumOver(S, f) ==
    IF S = {} THEN 0
    ELSE LET x == CHOOSE y \in S : TRUE IN f[x] + SumOver(S \ {x}, f)

\* A table whose rows carry no id is the bag of its rows: a function from
\* each stored row to the number of its copies.
NoRows == [r \in {} |-> 0]

BagAdd(bag, row) ==
    [ r \in DOMAIN bag \cup {row} |->
        IF r = row THEN (IF row \in DOMAIN bag THEN bag[row] ELSE 0) + 1
        ELSE bag[r] ]

BagSize(bag) == SumOver(DOMAIN bag, bag)

\* the copies of the rows of a bag, each a pair <<row, k>>
Copies(bag) == UNION { { <<r, k>> : k \in 1..bag[r] } : r \in DOMAIN bag }

\* the orderings of the rows of S created from time t to time hi, ascending
RECURSIVE OrderFrom(_, _, _)
OrderFrom(S, t, hi) ==
    IF t > hi THEN { <<>> }
    ELSE { a \o b : a \in AnyOrder({ r \in S : r.created_at = t }),
                    b \in OrderFrom(S, t + 1, hi) }

\* fault injected for C12: a select without .order("created_at")
Unordered(S) == AnyOrder(S)

\* every ordering of the set of rows S that is ascending in created_at:
\* ORDER BY created_at ASC fixes no order among equal keys
OrderByCreatedAt(S) ==
    IF S = {} THEN { <<>> }
    ELSE LET times == { r.created_at : r \in S }
             lo == CHOOSE t \in times : \A q \in times : t <= q
             hi == CHOOSE t \in times : \A q \in times : q <= t
         IN  OrderFrom(S, lo, hi)

\* .limit(n)
LimitTo(s, n) == IF Len(s) <= n THEN s ELSE SubSeq(s, 1, n)

\* ------------------------------------------------------------ table store
\* A table is the sequence of its rows in insertion order.  Ids are the
\* decimal strings of a per-table serial.
NextId(table) == ToString(Len(table) + 1)

\* INSERT INTO messages: the store assigns id and created_at
InsertMessage(table, fields, t) ==
    [ id |-> NextId(table),
      user_id |-> fields.user_id,
      channel_id |-> fields.channel_id,
      recipient_id |-> fields.recipient_id,
      content |-> fields.content,
      message_type |-> fields.message_type,
      created_at |-> t ]

\* fault injected for C3: message_reactions without its unique key
ReactionNoUniqueKey(table, message_id, user_id, emoji) == FALSE

\* the unique key (message_id, user_id, emoji) of message_reactions: an
\* insert of a second row with the key of a stored row is rejected
ReactionDuplicateKey(table, message_id, user_id, emoji) ==
    [message_id |-> message_id, user_id |-> user_id, emoji |-> emoji]
        \in DOMAIN table

\* fault injected for C5: channel_members without its unique key
MemberNoUniqueKey(table, user_id, channel_id) == FALSE

\* the unique key (user_id, channel_id) of channel_members
MemberDuplicateKey(table, user_id, channel_id) ==
    [user_id |-> user_id, channel_id |-> channel_id] \in DOMAIN table

\* ------------------------------------------------------ Identity Resolver
\* user_profiles.select("*").eq("id", user_id): the stored profile, or the
\* placeholder when no row matches
ProfileOf(profiles, user_id) ==
    LET hit == SelectSeq(profiles, LAMBDA p : p.id = user_id)
    IN  IF hit # <<>> THEN hit[1] ELSE UnknownProfile

\* fault injected for C15: the profiles joined to the messages in one
\* query, which leaves out a message whose author has no profile row
DecorateJoined(rows, profiles, failed) ==
    LET kept == SelectSeq(rows, LAMBDA r :
                    \E i \in 1..Len(profiles) : profiles[i].id = r.user_id)
    IN  [ i \in 1..Len(kept) |->
            [ id |-> kept[i].id,
              user_id |-> kept[i].user_id,
              channel_id |-> kept[i].channel_id,
              recipient_id |-> kept[i].recipient_id,
              content |-> kept[i].content,
              message_type |-> kept[i].message_type,
              created_at |-> kept[i].created_at,
              user_profiles |-> ProfileOf(profiles, kept[i].user_id) ] ]

\* message["user_profiles"] = ... for each row of a result; failed holds
\* the positions whose profile lookup raised (the inner except)
Decorate(rows, profiles, failed) ==
    [ i \in 1..Len(rows) |->
        [ id |-> rows[i].id,
          user_id |-> rows[i].user_id,
          channel_id |-> rows[i].channel_id,
          recipient_id |-> rows[i].recipient_id,
          content |-> rows[i].content,
          message_type |-> rows[i].message_type,
          created_at |-> rows[i].created_at,
          user_profiles |-> IF i \in failed THEN UnknownProfile
                            ELSE ProfileOf(profiles, rows[i].user_id) ] ]

\* ----------------------------------------------------- Conversation Store
\* The possible results of get_channel_messages(auth_supabase, channel_id,
\* limit): ok is whether the messages query succeeds, failed the positions
\* of the result whose profile lookup raised.
\* fault injected for C19: the failure of the query is not caught, and the
\* script shows the exception instead of the handled error
get_channel_messages_uncaught(tbl, profiles, channel_id, limit, ok, failed) ==
    IF ~ok
    THEN { [ret |-> <<>>, err |-> <<"Traceback">>] }
    ELSE LET hits == { r \in Range(tbl) : r.channel_id = channel_id }
         IN  { [ret |-> Decorate(LimitTo(q, limit), profiles, failed),
                   err |-> <<>>] :
                 q \in OrderByCreatedAt(hits) }

get_channel_messages(tbl, profiles, channel_id, limit, ok, failed) ==
    IF ~ok
    THEN { [ret |-> <<>>, err |-> <<"Error fetching messages">>] }
    ELSE LET hits == { r \in Range(tbl) : r.channel_id = channel_id }
         IN  { [ret |-> Decorate(LimitTo(q, limit), profiles, failed),
                   err |-> <<>>] :
                 q \in OrderByCreatedAt(hits) }

\* send_message(auth_supabase, user_id, channel_id, content) at time t
\* fault injected for C20: the handler of the failed insert shows nothing
send_message_unreported(tbl, user_id, channel_id, content, t, ok) ==
    IF ~ok
    THEN [messages |-> tbl, ret |-> NoRow, err |-> << >>]
    ELSE LET row == InsertMessage(tbl,
                      [ user_id |-> user_id,
                        channel_id |-> channel_id,
                        recipient_id |-> None,
                        content |-> Strip(content),
                        message_type |-> "text" ], t)
         IN  [messages |-> Append(tbl, row), ret |-> row, err |-> <<>>]

send_message(tbl, user_id, channel_id, content, t, ok) ==
    IF ~ok
    THEN [messages |-> tbl, ret |-> NoRow, err |-> <<"Error sending message">>]
    ELSE LET row == InsertMessage(tbl,
                      [ user_id |-> user_id,
                        channel_id |-> channel_id,
                        recipient_id |-> None,
                        content |-> Strip(content),
                        message_type |-> "text" ], t)
         IN  [messages |-> Append(tbl, row), ret |-> row, err |-> <<>>]

\* conversation_key = f"{user_id}_{other_user_id}"
conversation_key(user_id, other_user_id) == user_id \o "_" \o other_user_id

\* the two messages a demo conversation is initialised with
\* fault injected for C26: the greetings are seeded twice
SeedMessagesTwice(user_id, other_user_id) ==
    LET seeds == << [ id |-> "demo-init-1", user_id |-> other_user_id,
                      recipient_id |-> user_id, content |-> <<"w">>,
                      created_at |-> Seed1Time, message_type |-> "text" ],
                    [ id |-> "demo-init-2", user_id |-> other_user_id,
                      recipient_id |-> user_id, content |-> <<"t">>,
                      created_at |-> Seed2Time, message_type |-> "text" ] >>
    IN  seeds \o seeds

SeedMessages(user_id, other_user_id) ==
    << [ id |-> "demo-init-1", user_id |-> other_user_id,
         recipient_id |-> user_id, content |-> <<"w">>,
         created_at |-> Seed1Time, message_type |-> "text" ],
       [ id |-> "demo-init-2", user_id |-> other_user_id,
         recipient_id |-> user_id, content |-> <<"t">>,
         created_at |-> Seed2Time, message_type |-> "text" ] >>

\* msg["user_profiles"] = ... for each message of a demo conversation
DecorateDemo(rows, user_id) ==
    [ i \in 1..Len(rows) |->
        [ id |-> rows[i].id,
          user_id |-> rows[i].user_id,
          recipient_id |-> rows[i].recipient_id,
          content |-> rows[i].content,
          message_type |-> rows[i].message_type,
          created_at |-> rows[i].created_at,
          user_profiles |->
              IF rows[i].user_id = user_id
              THEN [display_name |-> "You", username |-> "you"]
              ELSE demo_user_names(rows[i].user_id) ] ]

\* fault injected for C14: the stored path of get_direct_messages matching
\* only the messages user_id sent to other_user_id
get_direct_messages_one_way(tbl, profiles, demo, user_id, other_user_id, limit, ok, failed) ==
    IF ~ok
    THEN { [ ret |-> <<>>, demo_messages |-> demo,
             err |-> <<"Error fetching direct messages">>, db |-> {"messages"} ] }
    ELSE LET hits == { r \in Range(tbl) :
                        /\ r.channel_id = None
                        /\ r.user_id = user_id /\ r.recipient_id = other_user_id }
         IN  { [ ret |-> Decorate(LimitTo(q, limit), profiles, failed),
                 demo_messages |-> demo, err |-> <<>>,
                 db |-> {"messages", "user_profiles"} ] :
                 q \in OrderByCreatedAt(hits) }

\* The possible results of get_direct_messages(auth_supabase, user_id,
\* other_user_id, limit) in a session whose st.session_state.demo_messages
\* is demo: the returned list, the demo_messages it leaves, the errors
\* shown and the tables it queried.
get_direct_messages(tbl, profiles, demo, user_id, other_user_id, limit, ok, failed) ==
    IF other_user_id \in demo_user_ids
    THEN LET key == conversation_key(user_id, other_user_id)
             stored == IF key \in DOMAIN demo THEN demo[key]
                       ELSE SeedMessages(user_id, other_user_id)
             shown == DecorateDemo(stored, user_id)
         IN  { [ ret |-> shown,
                 demo_messages |-> [ k \in DOMAIN demo \cup {key} |->
                                       IF k = key THEN shown ELSE demo[k] ],
                 err |-> <<>>, db |-> {} ] }
    ELSE IF ~ok
    THEN { [ ret |-> <<>>, demo_messages |-> demo,
             err |-> <<"Error fetching direct messages">>, db |-> {"messages"} ] }
    ELSE LET hits == { r \in Range(tbl) :
                        /\ r.channel_id = None
                        /\ \/ r.user_id = user_id /\ r.recipient_id = other_user_id
                           \/ r.user_id = other_user_id /\ r.recipient_id = user_id }
         IN  { [ ret |-> Decorate(LimitTo(q, limit), profiles, failed),
                 demo_messages |-> demo, err |-> <<>>,
                 db |-> {"messages", "user_profiles"} ] :
                 q \in OrderByCreatedAt(hits) }

\* fault injected for C7: send_direct_message without the demo branch
send_direct_message_always_stores(tbl, user_id, recipient_id, content, t, ok) ==
    IF ~ok
    THEN [ messages |-> tbl, ret |-> NoRow,
           err |-> <<"Error sending direct message">>, db |-> {"messages"} ]
    ELSE LET row == InsertMessage(tbl,
                      [ user_id |-> user_id,
                        channel_id |-> None,
                        recipient_id |-> recipient_id,
                        content |-> Strip(content),
                        message_type |-> "text" ], t)
         IN  [ messages |-> Append(tbl, row), ret |-> row, err |-> <<>>,
               db |-> {"messages"} ]

\* send_direct_message(auth_supabase, user_id, recipient_id, content) at time t
\* fault injected for C23: the stored direct message also names the general
\* channel
send_direct_message_in_channel(tbl, user_id, recipient_id, content, t, ok) ==
    IF recipient_id \in demo_user_ids
    THEN [ messages |-> tbl,
           ret |-> [ id |-> "demo-msg-" \o ToString(t),
                     user_id |-> user_id,
                     recipient_id |-> recipient_id,
                     content |-> Strip(content),
                     message_type |-> "text",
                     created_at |-> t ],
           err |-> <<>>, db |-> {} ]
    ELSE IF ~ok
    THEN [ messages |-> tbl, ret |-> NoRow,
           err |-> <<"Error sending direct message">>, db |-> {"messages"} ]
    ELSE LET row == InsertMessage(tbl,
                      [ user_id |-> user_id,
                        channel_id |-> GeneralChannelId,
                        recipient_id |-> recipient_id,
                        content |-> Strip(content),
                        message_type |-> "text" ], t)
         IN  [ messages |-> Append(tbl, row), ret |-> row, err |-> <<>>,
               db |-> {"messages"} ]

send_direct_message(tbl, user_id, recipient_id, content, t, ok) ==
    IF recipient_id \in demo_user_ids
    THEN [ messages |-> tbl,
           ret |-> [ id |-> "demo-msg-" \o ToString(t),
                     user_id |-> user_id,
                     recipient_id |-> recipient_id,
                     content |-> Strip(content),
                     message_type |-> "text",
                     created_at |-> t ],
           err |-> <<>>, db |-> {} ]
    ELSE IF ~ok
    THEN [ messages |-> tbl, ret |-> NoRow,
           err |-> <<"Error sending direct message">>, db |-> {"messages"} ]
    ELSE LET row == InsertMessage(tbl,
                      [ user_id |-> user_id,
                        channel_id |-> None,
                        recipient_id |-> recipient_id,
                        content |-> Strip(content),
                        message_type |-> "text" ], t)
         IN  [ messages |-> Append(tbl, row), ret |-> row, err |-> <<>>,
               db |-> {"messages"} ]

\* ----------------------------------------------------- Reaction Aggregator
\* the emoji of the quick reaction buttons
Emojis == {"thumbs_up", "heart"}

\* fault injected for C4: add_reaction reporting the exception, as
\* send_message does
add_reaction_reports(tbl, message_id, user_id, emoji, ok) ==
    IF ~ok \/ ReactionDuplicateKey(tbl, message_id, user_id, emoji)
    THEN [reactions |-> tbl, ret |-> NoRow,
          err |-> <<"Error adding reaction">>, raised |-> FALSE]
    ELSE LET row == [ message_id |-> message_id, user_id |-> user_id,
                      emoji |-> emoji ]
         IN  [reactions |-> BagAdd(tbl, row), ret |-> row, err |-> <<>>,
              raised |-> FALSE]

\* add_reaction(auth_supabase, message_id, user_id, emoji): every exception
\* of the insert, the duplicate key included, is swallowed
add_reaction(tbl, message_id, user_id, emoji, ok) ==
    IF ~ok \/ ReactionDuplicateKey(tbl, message_id, user_id, emoji)
    THEN [reactions |-> tbl, ret |-> NoRow, err |-> <<>>, raised |-> FALSE]
    ELSE LET row == [ message_id |-> message_id, user_id |-> user_id,
                      emoji |-> emoji ]
         IN  [reactions |-> BagAdd(tbl, row), ret |-> row, err |-> <<>>,
              raised |-> FALSE]

\* remove_reaction(auth_supabase, message_id, user_id, emoji)
\* fault injected for C24: the delete is not filtered by user_id
remove_reaction_any_user(tbl, message_id, user_id, emoji, ok) ==
    IF ~ok
    THEN [reactions |-> tbl, ret |-> FALSE, err |-> <<>>, raised |-> FALSE]
    ELSE [ reactions |->
               [ r \in { x \in DOMAIN tbl :
                           ~ ( /\ x.message_id = message_id
                               /\ x.emoji = emoji ) } |-> tbl[r] ],
           ret |-> TRUE, err |-> <<>>, raised |-> FALSE ]

remove_reaction(tbl, message_id, user_id, emoji, ok) ==
    IF ~ok
    THEN [reactions |-> tbl, ret |-> FALSE, err |-> <<>>, raised |-> FALSE]
    ELSE [ reactions |->
               [ r \in { x \in DOMAIN tbl :
                           ~ ( /\ x.message_id = message_id
                               /\ x.user_id = user_id
                               /\ x.emoji = emoji ) } |-> tbl[r] ],
           ret |-> TRUE, err |-> <<>>, raised |-> FALSE ]

\* reaction["user_profiles"] = ... for each row of a result (rows: copies
\* of stored rows)
DecorateReactions(rows, profiles, failed) ==
    [ i \in 1..Len(rows) |->
        [ message_id |-> rows[i][1].message_id,
          user_id |-> rows[i][1].user_id,
          emoji |-> rows[i][1].emoji,
          user_profiles |-> IF i \in failed THEN UnknownProfile
                            ELSE ProfileOf(profiles, rows[i][1].user_id) ] ]

\* fault injected for C10: get_message_reactions without
\* .eq("message_id", message_id)
get_message_reactions_unfiltered(tbl, profiles, message_id, ok, failed) ==
    IF ~ok THEN { <<>> }
    ELSE { DecorateReactions(q, profiles, failed) : q \in AnyOrder(Copies(tbl)) }

\* The possible results of get_message_reactions(auth_supabase, message_id):
\* ok is whether the reactions query succeeds, failed the positions of the
\* result whose profile lookup raised.
get_message_reactions(tbl, profiles, message_id, ok, failed) ==
    IF ~ok THEN { <<>> }
    ELSE { DecorateReactions(q, profiles, failed) :
             q \in AnyOrder({ c \in Copies(tbl) : c[1].message_id = message_id }) }

\* reaction_counts after the grouping loop over reactions: a dict whose keys
\* are the emoji met
RECURSIVE reaction_counts(_)
reaction_counts(reactions) ==
    IF reactions = <<>> THEN << >>
    ELSE LET before == reaction_counts(SubSeq(reactions, 1, Len(reactions) - 1))
             emoji == Last(reactions).emoji
         IN  [ e \in DOMAIN before \cup {emoji} |->
                 IF e = emoji
                 THEN (IF e \in DOMAIN before THEN before[e] ELSE 0) + 1
                 ELSE before[e] ]

\* user_has_reacted = any(r['user_id'] == user_id and r['emoji'] == emoji ...)
user_has_reacted(reactions, user_id, emoji) ==
    \E i \in 1..Len(reactions) :
        reactions[i].user_id = user_id /\ reactions[i].emoji = emoji

\* ----------------------------------------------------- Membership Manager
\* join_channel(auth_supabase, user_id, channel_id): ok is whether the
\* store is reachable; the store rejects a duplicate (user_id, channel_id)
\* with a "duplicate key" error
join_channel(tbl, user_id, channel_id, ok) ==
    IF ~ok
    THEN [members |-> tbl, ret |-> FALSE, err |-> <<"Error joining channel">>]
    ELSE IF MemberDuplicateKey(tbl, user_id, channel_id)
    THEN [members |-> tbl, ret |-> FALSE, err |-> <<>>]
    ELSE [ members |-> BagAdd(tbl, [user_id |-> user_id, channel_id |-> channel_id]),
           ret |-> TRUE, err |-> <<>> ]

\* a call of join_channel with what it returned and showed; dup tells
\* whether it met the duplicate key
JoinCall(tbl, user_id, channel_id, ok) ==
    LET j == join_channel(tbl, user_id, channel_id, ok)
    IN  [ members |-> j.members,
          rec |-> [ user_id |-> user_id, channel_id |-> channel_id,
                    dup |-> ok /\ MemberDuplicateKey(tbl, user_id, channel_id),
                    ret |-> j.ret, err |-> j.err ] ]

\* get_user_channels(auth_supabase, user_id): the channels with a
\* channel_members row of the user (inner join), in any order
get_user_channels(chans, members, user_id, ok) ==
    IF ~ok THEN { <<>> }
    ELSE AnyOrder({ c \in Range(chans) :
                      \E m \in DOMAIN members :
                          m.channel_id = c.id /\ m.user_id = user_id })

\* create_channel(auth_supabase, user_id, workspace_id, name): insert the
\* channel, then join its creator
create_channel(chans, members, user_id, workspace_id, name, ok) ==
    IF ~ok
    THEN [channels |-> chans, members |-> members, ret |-> NoRow,
          err |-> <<"Error creating channel">>, joins |-> << >>]
    ELSE LET row == [ id |-> NextId(chans), workspace_id |-> workspace_id,
                      name |-> name, created_by |-> user_id,
                      is_private |-> FALSE ]
             j == JoinCall(members, user_id, row.id, TRUE)
         IN  [channels |-> Append(chans, row), members |-> j.members,
              ret |-> row, err |-> j.rec.err, joins |-> << j.rec >>]

\* The possible outcomes of ensure_default_workspace_and_channel(
\* auth_supabase, user_id).  failAt is the store call that fails (0: none;
\* 1: workspace select, 2: workspace insert, 3: channel select, 4: channel
\* insert, 5: the join); the except clause swallows the first four, and
\* join_channel handles its own.  data[0] of a select is any matching row.
ensure_default_workspace_and_channel(ws, chans, members, user_id, failAt) ==
    LET found == { w \in Range(ws) : w.name = "Default Workspace" }
        newWs == [ id |-> NextId(ws), name |-> "Default Workspace",
                   created_by |-> user_id ]
        ws1 == IF found = {} /\ failAt # 2 THEN Append(ws, newWs) ELSE ws
        wsIds == IF found = {} THEN { newWs.id } ELSE { w.id : w \in found }
        Out(w, c, m, e, j) ==
            [ workspaces |-> w, channels |-> c, members |-> m, err |-> e,
              joins |-> j ]
        Joined(w, c, cid) ==
            LET j == JoinCall(members, user_id, cid, failAt # 5)
            IN  Out(w, c, j.members, j.rec.err, << j.rec >>)
    IN  IF failAt = 1 \/ (found = {} /\ failAt = 2)
        THEN { Out(ws, chans, members, <<>>, <<>>) }
        ELSE IF failAt = 3
        THEN { Out(ws1, chans, members, <<>>, <<>>) }
        ELSE UNION { LET general == { c \in Range(chans) :
                                        c.name = "general" /\ c.workspace_id = wid }
                         newCh == [ id |-> NextId(chans), workspace_id |-> wid,
                                    name |-> "general", created_by |-> user_id,
                                    is_private |-> FALSE ]
                     IN  IF general = {}
                         THEN IF failAt = 4
                              THEN { Out(ws1, chans, members, <<>>, <<>>) }
                              ELSE { Joined(ws1, Append(chans, newCh), newCh.id) }
                         ELSE { Joined(ws1, chans, c.id) : c \in general }
                   : wid \in wsIds }

\* -------------------------------------------------------------------- state
VARIABLES
    now,                \* the clock: time.time(), utcnow() and the store's now()
    messages,           \* table messages
    message_reactions,  \* table message_reactions
    channel_members,    \* table channel_members
    channels,           \* table channels
    workspaces,         \* table workspaces
    user_profiles,      \* table user_profiles
    current_channel,    \* st.session_state.current_channel of each session (its id)
    current_dm_user,    \* st.session_state.current_dm_user of each session (its id)
    view_mode,          \* st.session_state.view_mode of each session
    message_count,      \* st.session_state.message_count of each session
    last_refresh,       \* st.session_state.last_refresh of each session
    demo_messages,      \* st.session_state.demo_messages of each session
    view,               \* the messages each session rendered last
    reaction_buttons,   \* the (message, emoji) buttons each session rendered last
    ensuring,           \* each user's call of ensure_default_workspace_and_channel in flight
    last                \* the operation that led to this state, with its outcome

tables == << messages, message_reactions, channel_members, channels,
             workspaces, user_profiles >>
session == << current_channel, current_dm_user, view_mode, message_count,
              last_refresh, demo_messages, view, reaction_buttons >>
vars == << now, tables, session, ensuring, last >>

\* the profile create_or_update_user_profile upserts for a user
ProfileRow(user_id) ==
    [ id |-> user_id, username |-> user_id, display_name |-> user_id ]

\* The tables once every user has logged in: the default workspace, its
\* general channel, a second public channel, each user a member of general
\* and with a profile.
BootstrappedTables ==
    /\ workspaces = << [ id |-> DefaultWorkspaceId, name |-> "Default Workspace",
                         created_by |-> "A" ] >>
    /\ channels = << [ id |-> GeneralChannelId, workspace_id |-> DefaultWorkspaceId,
                       name |-> "general", created_by |-> "A",
                       is_private |-> FALSE ],
                     [ id |-> "2", workspace_id |-> DefaultWorkspaceId,
                       name |-> "random", created_by |-> "A",
                       is_private |-> FALSE ] >>
    /\ channel_members =
           BagAdd(BagAdd(BagAdd(NoRows,
               [user_id |-> "A", channel_id |-> GeneralChannelId]),
               [user_id |-> "A", channel_id |-> "2"]),
               [user_id |-> "B", channel_id |-> GeneralChannelId])
    /\ user_profiles = << ProfileRow("A"), ProfileRow("B") >>

\* an empty dict
EmptyDict == [k \in {} |-> << >>]

\* no call of ensure_default_workspace_and_channel is in flight
NoCalls ==
    [ u \in Users |-> [pc |-> "idle", workspace_id |-> None, channel_id |-> None] ]

\* seconds since the session was started, in the initial state
IdleFor == {0, RefreshInterval}

\* st.session_state as lines 585-597 initialised it idle seconds ago
FreshSessions(idle) ==
    /\ current_channel = [u \in Sessions |-> None]
    /\ current_dm_user = [u \in Sessions |-> None]
    /\ view_mode = [u \in Sessions |-> "channel"]
    /\ message_count = [u \in Sessions |-> 0]
    /\ last_refresh \in [Sessions -> { now - d : d \in idle }]
    /\ demo_messages = [u \in Sessions |-> EmptyDict]
    /\ view = [u \in Sessions |-> << >>]
    /\ reaction_buttons = [u \in Sessions |-> {}]

Init ==
    /\ now = StartTime
    /\ messages = << >>
    /\ message_reactions = NoRows
    /\ BootstrappedTables
    /\ FreshSessions(IdleFor)
    /\ ensuring = NoCalls
    /\ last = [op |-> "init"]

\* ------------------------------------------------------------ the script
\* The read of the main chat area (lines 768-777) for view mode vm, active
\* channel cc and active DM user dm: the possible results.
ActiveList(tbl, profiles, demo, user_id, vm, cc, dm, ok) ==
    IF vm = "channel" /\ cc # None
    THEN { [ ret |-> r.ret, demo_messages |-> demo, err |-> r.err,
             db |-> {"messages", "user_profiles"} ] :
             r \in get_channel_messages(tbl, profiles, cc, DefaultLimit, ok, {}) }
    ELSE IF vm = "dm" /\ dm # None
    THEN get_direct_messages(tbl, profiles, demo, user_id, dm, DefaultLimit, ok,
                             {})
    ELSE { [ret |-> << >>, demo_messages |-> demo, err |-> << >>, db |-> {}] }

\* The tables the rendering of a message list (lines 779-858) queries:
\* get_message_reactions is called for every message shown.
RenderQueries(shown) ==
    IF shown = << >> THEN {} ELSE {"message_reactions"}

\* fault injected for C9: the send handler putting a demo message first
\* in its list
SendHandler_prepends(tbl, demo, user_id, vm, cc, dm, content, t, ok) ==
    IF vm = "channel" /\ cc # None
    THEN LET r == send_message(tbl, user_id, cc, content, t, ok)
         IN  [ messages |-> r.messages, demo_messages |-> demo,
               sent |-> r.ret, err |-> r.err, db |-> {"messages"} ]
    ELSE IF vm = "dm" /\ dm # None
    THEN LET r == send_direct_message(tbl, user_id, dm, content, t, ok)
             key == conversation_key(user_id, dm)
             old == IF key \in DOMAIN demo THEN demo[key] ELSE << >>
         IN  [ messages |-> r.messages,
               demo_messages |->
                   IF dm \in demo_user_ids /\ Truthy(r.ret)
                   THEN [ k \in DOMAIN demo \cup {key} |->
                            IF k = key THEN << r.ret >> \o old ELSE demo[k] ]
                   ELSE demo,
               sent |-> r.ret, err |-> r.err, db |-> r.db ]
    ELSE [ messages |-> tbl, demo_messages |-> demo, sent |-> NoRow,
           err |-> << >>, db |-> {} ]

\* The body of the send handler (lines 881-895), run when Send was clicked
\* with a text that is not blank.
SendHandler(tbl, demo, user_id, vm, cc, dm, content, t, ok) ==
    IF vm = "channel" /\ cc # None
    THEN LET r == send_message(tbl, user_id, cc, content, t, ok)
         IN  [ messages |-> r.messages, demo_messages |-> demo,
               sent |-> r.ret, err |-> r.err, db |-> {"messages"} ]
    ELSE IF vm = "dm" /\ dm # None
    THEN LET r == send_direct_message(tbl, user_id, dm, content, t, ok)
             key == conversation_key(user_id, dm)
             old == IF key \in DOMAIN demo THEN demo[key] ELSE << >>
         IN  [ messages |-> r.messages,
               demo_messages |->
                   IF dm \in demo_user_ids /\ Truthy(r.ret)
                   THEN [ k \in DOMAIN demo \cup {key} |->
                            IF k = key THEN Append(old, r.ret) ELSE demo[k] ]
                   ELSE demo,
               sent |-> r.ret, err |-> r.err, db |-> r.db ]
    ELSE [ messages |-> tbl, demo_messages |-> demo, sent |-> NoRow,
           err |-> << >>, db |-> {} ]

\* send_button and message_input and message_input.strip()
SendGuard(ev) ==
    ev.type = "send" /\ ev.content # << >> /\ Strip(ev.content) # << >>

\* the users of the Direct Messages list: get_all_users(auth_supabase, user_id)
all_users(profiles, user_id) ==
    { p.id : p \in { q \in Range(profiles) : q.id # user_id } } \cup demo_user_ids

\* what the user of a session can do to start a run of the script
Events(user_id) ==
    { [type |-> "none"] }
    \cup { [type |-> "channel", id |-> m.channel_id] :
             m \in { x \in DOMAIN channel_members : x.user_id = user_id } }
    \cup { [type |-> "dm", id |-> d] : d \in all_users(user_profiles, user_id) }
    \cup { [type |-> "send", content |-> c] : c \in Contents }

\* messages stored since the initial state, in the table and in the demo
\* conversations
DemoPosted(demo) ==
    SumOver(DOMAIN demo,
            [ k \in DOMAIN demo |->
                Cardinality({ i \in 1..Len(demo[k]) :
                                demo[k][i].created_at >= StartTime }) ])

Posted ==
    Cardinality({ i \in 1..Len(messages) : messages[i].created_at >= StartTime })
    + SumOver(Sessions, [ u \in Sessions |-> DemoPosted(demo_messages[u]) ])

\* The clicks on the buttons under a message the session shows: a quick
\* reaction button (lines 846-856) or the button of an emoji the message has
\* reactions with (line 835).
ReactEvents(user_id) ==
    { [type |-> "quick", id |-> view[user_id][i].id, emoji |-> e] :
        i \in 1..Len(view[user_id]), e \in Emojis }
    \cup { [type |-> "toggle", id |-> b[1], emoji |-> b[2]] :
             b \in reaction_buttons[user_id] }

\* One run of the script for the session of user_id on event ev (lines
\* 599-899), reruns included: st.rerun() abandons the run and starts the
\* script again with no event.  okChans, okRead and okWrite tell whether the
\* store answers the channel query of the sidebar, the list query and the
\* insert.
ScriptRun(user_id, ev, okChans, okRead, okWrite) ==
    /\ ev \in Events(user_id) \cup ReactEvents(user_id)
    \* a channel button is drawn from the channels the sidebar read
    /\ ev.type = "channel" => okChans
    /\ SendGuard(ev) => Posted < MaxPosts
    /\ ev.type \in {"quick", "toggle"} => BagSize(message_reactions) < MaxReactions
    /\ \E boot \in ensure_default_workspace_and_channel(
                     workspaces, channels, channel_members, user_id, 0) :
       \E chs \in get_user_channels(boot.channels, boot.members, user_id,
                                    okChans) :
       LET \* lines 634-637: auto-join channel 1 when no channel is "general"
           noGeneral == \A i \in 1..Len(chs) : chs[i].name # "general"
           members1 == IF noGeneral
                       THEN join_channel(boot.members, user_id,
                                         GeneralChannelId, TRUE).members
                       ELSE boot.members
       IN
       \E chs1 \in IF noGeneral
                   THEN get_user_channels(boot.channels, members1, user_id,
                                          okChans)
                   ELSE { chs } :
       LET \* lines 639-641: the default channel
           Default(cc) == IF cc = None /\ chs1 # << >> THEN chs1[1].id ELSE cc
           cc0 == Default(current_channel[user_id])
           \* lines 650-654 and 677-681: a sidebar button, then the rerun
           cc1 == IF ev.type = "channel" THEN ev.id
                  ELSE IF ev.type = "dm" THEN Default(None)
                  ELSE cc0
           dm1 == IF ev.type = "channel" THEN None
                  ELSE IF ev.type = "dm" THEN ev.id
                  ELSE current_dm_user[user_id]
           vm1 == IF ev.type = "channel" THEN "channel"
                  ELSE IF ev.type = "dm" THEN "dm"
                  ELSE view_mode[user_id]
           \* lines 758-761: the refresh check, then the rerun
           fires == now - last_refresh[user_id] > RefreshInterval
           sending == SendGuard(ev) /\ ~fires
       IN
       \E first \in ActiveList(messages, user_profiles, demo_messages[user_id],
                               user_id, vm1, cc1, dm1, okRead) :
       LET h == IF sending
                THEN SendHandler(messages, first.demo_messages, user_id,
                                 vm1, cc1, dm1, ev.content, now, okWrite)
                ELSE [ messages |-> messages,
                       demo_messages |-> first.demo_messages,
                       sent |-> NoRow, err |-> << >>, db |-> {} ]
           \* lines 812-832: the reactions of the message as this run reads
           \* them, and whether the user is among them with the emoji
           reactions == CHOOSE rs \in get_message_reactions(message_reactions,
                                       user_profiles, ev.id, TRUE, {}) : TRUE
           has_reacted == user_has_reacted(reactions, user_id, ev.emoji)
           \* the button is drawn in this run, and the run reaches it
           reacting ==
               /\ ev.type \in {"quick", "toggle"}
               /\ ~fires
               /\ \E i \in 1..Len(first.ret) : first.ret[i].id = ev.id
               /\ ev.type = "toggle"
                      => \E i \in 1..Len(reactions) : reactions[i].emoji = ev.emoji
           \* lines 836-839, 847, 851, 855
           click == IF ~reacting THEN NoRow
                    ELSE [ id |-> ev.id, emoji |-> ev.emoji, type |-> ev.type,
                           user_has_reacted |-> has_reacted, ok |-> okWrite ]
           reactions1 ==
               IF ~reacting THEN message_reactions
               ELSE IF ev.type = "toggle" /\ has_reacted
               THEN remove_reaction(message_reactions, ev.id, user_id, ev.emoji,
                                    okWrite).reactions
               ELSE add_reaction(message_reactions, ev.id, user_id, ev.emoji,
                                 okWrite).reactions
           reruns == Truthy(h.sent) \/ reacting
       IN
       \E final \in IF reruns
                    THEN ActiveList(h.messages, user_profiles, h.demo_messages,
                                    user_id, vm1, cc1, dm1, okRead)
                    ELSE { first } :
           \* okRead means nothing when the run queries no table
           /\ first.db = {} => okRead
           /\ workspaces' = boot.workspaces
           /\ channels' = boot.channels
           /\ channel_members' = members1
           /\ messages' = h.messages
           /\ message_reactions' = reactions1
           /\ current_channel' = [current_channel EXCEPT ![user_id] = cc1]
           /\ current_dm_user' = [current_dm_user EXCEPT ![user_id] = dm1]
           /\ view_mode' = [view_mode EXCEPT ![user_id] = vm1]
           /\ last_refresh' = [last_refresh EXCEPT ![user_id] =
                                 IF fires THEN now ELSE @]
           /\ message_count' = [message_count EXCEPT ![user_id] =
                                  IF Truthy(h.sent) THEN @ + 1 ELSE @]
           /\ demo_messages' = [demo_messages EXCEPT ![user_id] =
                                  final.demo_messages]
           /\ view' = [view EXCEPT ![user_id] = final.ret]
           \* lines 814-835: a button for each emoji of each message shown
           /\ reaction_buttons' = [reaction_buttons EXCEPT ![user_id] =
                  { << r.message_id, r.emoji >> :
                      r \in { x \in DOMAIN reactions1 :
                                \E i \in 1..Len(final.ret) :
                                    final.ret[i].id = x.message_id } }]
           /\ last' = [ op |-> "run", user |-> user_id,
                        blank |-> ev.type = "send" /\ IsBlank(ev.content),
                        fired |-> fires, posting |-> sending,
                        send |-> SendGuard(ev),
                        sent |-> h.sent,
                        clicked |-> IF ev.type \in {"quick", "toggle"}
                                    THEN [ id |-> ev.id, emoji |-> ev.emoji,
                                           type |-> ev.type ]
                                    ELSE NoRow,
                        click |-> click,
                        err |-> (IF okChans THEN << >>
                                 ELSE <<"Error fetching channels">>)
                                \o first.err \o h.err
                                \o (IF reruns THEN final.err ELSE << >>),
                        db |-> first.db \cup RenderQueries(first.ret) \cup h.db
                               \cup (IF reruns
                                     THEN final.db \cup RenderQueries(final.ret)
                                     ELSE {}) ]
    /\ UNCHANGED << ensuring, now, user_profiles >>

\* the clock advances
Tick ==
    /\ now < StartTime + MaxTicks
    /\ now' = now + 1
    /\ last' = [op |-> "tick"]
    /\ UNCHANGED << ensuring, tables, session >>

\* The send handler of a user whose session is not followed: its effect on
\* the tables.
OtherPost(user_id, target, content) ==
    /\ user_id \in Users \ Sessions
    /\ SendGuard([type |-> "send", content |-> content])
    /\ Posted < MaxPosts
    /\ \/ /\ target.kind = "channel"
          /\ MemberDuplicateKey(channel_members, user_id, target.id)
          /\ messages' = send_message(messages, user_id, target.id, content,
                                      now, TRUE).messages
       \/ /\ target.kind = "dm"
          /\ target.id \in all_users(user_profiles, user_id) \ demo_user_ids
          /\ messages' = send_direct_message(messages, user_id, target.id,
                                             content, now, TRUE).messages
    /\ last' = [op |-> "other_post", user |-> user_id]
    /\ UNCHANGED << ensuring, now, message_reactions, channel_members, channels,
                    workspaces, user_profiles, session >>

Targets ==
    { [kind |-> "channel", id |-> c.id] : c \in Range(channels) }
    \cup { [kind |-> "dm", id |-> u] : u \in Users }

Next ==
    \/ Tick
    \/ \E u \in Sessions : \E ev \in Events(u) :
       \E okChans \in IF ev.type = "none" THEN BOOLEAN ELSE {TRUE} :
       \E okRead \in BOOLEAN :
       \E okWrite \in IF SendGuard(ev) THEN BOOLEAN ELSE {TRUE} :
           ScriptRun(u, ev, okChans, okRead, okWrite)
    \/ \E u \in Users : \E target \in Targets : \E c \in Contents :
           OtherPost(u, target, c)

Spec == Init /\ [][Next]_vars

\* ------------------------------------------------------ a watching session
\* The followed session selects conversations and otherwise watches; the
\* other users post.  The script runs only when the browser sends an event
\* (a click, an input): nothing in app.py starts a run by itself, and the
\* refresh check of line 759 is evaluated inside a run.  So nothing obliges
\* a run to happen; the clock alone goes on.
NextWatch ==
    \/ Tick
    \/ \E u \in Sessions :
       \E ev \in { e \in Events(u) : e.type \in {"none", "channel", "dm"} } :
           ScriptRun(u, ev, TRUE, TRUE, TRUE)
    \/ \E u \in Users : \E target \in Targets : OtherPost(u, target, <<"h">>)

SpecWatch == Init /\ [][NextWatch]_vars /\ WF_vars(Tick)

\* ------------------------------------------- a channel with a long history
\* The general channel already holds n messages, the oldest first, all
\* stored before the initial state.
Backlog(n) ==
    [ i \in 1..n |->
        [ id |-> ToString(i), user_id |-> "B", channel_id |-> GeneralChannelId,
          recipient_id |-> None, content |-> <<"h">>, message_type |-> "text",
          created_at |-> StartTime - n + i - 1 ] ]

BacklogSizes == { DefaultLimit - 1, DefaultLimit }

InitBacklog ==
    /\ now = StartTime
    /\ messages \in { Backlog(n) : n \in BacklogSizes }
    /\ message_reactions = NoRows
    /\ BootstrappedTables
    /\ FreshSessions(IdleFor)
    /\ ensuring = NoCalls
    /\ last = [op |-> "init"]

\* the followed session reads and posts; the store answers every call
NextBacklog ==
    \/ Tick
    \/ \E u \in Sessions :
       \E ev \in { e \in Events(u) : e.type \in {"none", "channel", "send"} } :
           ScriptRun(u, ev, TRUE, TRUE, TRUE)

SpecBacklog == InitBacklog /\ [][NextBacklog]_vars

\* ---------------------------------------------------------------- reactions
\* two stored channel messages to react to
InitReactions ==
    /\ now = StartTime
    /\ messages = send_message(
                     send_message(<< >>, "A", GeneralChannelId, <<"h">>,
                                  StartTime, TRUE).messages,
                     "B", GeneralChannelId, <<"h">>, StartTime, TRUE).messages
    /\ message_reactions = NoRows
    /\ BootstrappedTables
    /\ FreshSessions({0})
    /\ ensuring = NoCalls
    /\ last = [op |-> "init"]

MessageIds == { messages[i].id : i \in 1..Len(messages) }

\* A session of user_id calls add_reaction: a quick reaction button (lines
\* 846-856) or a reaction button the user had not reacted with (line 839).
AddReaction(user_id, message_id, emoji, ok) ==
    /\ message_id \in MessageIds
    /\ BagSize(message_reactions) < MaxReactions
    /\ LET r == add_reaction(message_reactions, message_id, user_id, emoji, ok)
       IN  /\ message_reactions' = r.reactions
           /\ last' = [ op |-> "add_reaction", message_id |-> message_id,
                        user_id |-> user_id, emoji |-> emoji,
                        existed |-> ReactionDuplicateKey(message_reactions,
                                        message_id, user_id, emoji),
                        ok |-> ok, ret |-> r.ret, err |-> r.err,
                        raised |-> r.raised ]
    /\ UNCHANGED << ensuring, now, messages, channel_members, channels, workspaces,
                    user_profiles, session >>

\* A session of user_id calls remove_reaction: a reaction button the user
\* had reacted with when the session read the reactions (line 837).
RemoveReaction(user_id, message_id, emoji, ok) ==
    /\ message_id \in MessageIds
    /\ LET r == remove_reaction(message_reactions, message_id, user_id, emoji, ok)
       IN  /\ message_reactions' = r.reactions
           /\ last' = [ op |-> "remove_reaction", message_id |-> message_id,
                        user_id |-> user_id, emoji |-> emoji,
                        existed |-> ReactionDuplicateKey(message_reactions,
                                        message_id, user_id, emoji),
                        ok |-> ok, ret |-> r.ret, err |-> r.err,
                        raised |-> r.raised ]
    /\ UNCHANGED << ensuring, now, messages, channel_members, channels, workspaces,
                    user_profiles, session >>

\* the number of message_reactions rows of a message
ReactionsOf(message_id) ==
    Cardinality({ c \in Copies(message_reactions) : c[1].message_id = message_id })

\* A session renders a message: get_message_reactions and the grouping
\* loop (lines 812-825).
ShowReactions(message_id, ok, failed) ==
    /\ message_id \in MessageIds
    /\ failed \subseteq 1..(IF ok THEN ReactionsOf(message_id) ELSE 0)
    /\ \E reactions \in get_message_reactions(message_reactions, user_profiles,
                                              message_id, ok, failed) :
           last' = [ op |-> "get_message_reactions", message_id |-> message_id,
                     ok |-> ok, failed |-> failed, reactions |-> reactions,
                     reaction_counts |-> reaction_counts(reactions) ]
    /\ UNCHANGED << ensuring, now, tables, session >>

NextReactions ==
    \/ \E u \in Users : \E m \in MessageIds : \E e \in Emojis : \E ok \in BOOLEAN :
           AddReaction(u, m, e, ok)
    \/ \E u \in Users : \E m \in MessageIds : \E e \in Emojis : \E ok \in BOOLEAN :
           RemoveReaction(u, m, e, ok)
    \/ \E m \in MessageIds : \E ok \in BOOLEAN :
       \E failed \in SUBSET (1..MaxReactions) : ShowReactions(m, ok, failed)

SpecReactions == InitReactions /\ [][NextReactions]_vars

\* --------------------------------------------------------------- membership
\* create_or_update_user_profile(auth_supabase, user): the upsert, then the
\* bootstrap; an exception of the upsert skips the bootstrap
create_or_update_user_profile(profiles, ws, chans, members, user_id, okUpsert, failAt) ==
    IF ~okUpsert
    THEN { [ profiles |-> profiles, workspaces |-> ws, channels |-> chans,
             members |-> members, ret |-> NoRow,
             err |-> <<"Error creating user profile">>, joins |-> << >> ] }
    ELSE { [ profiles |->
                 IF \E i \in 1..Len(profiles) : profiles[i].id = user_id
                 THEN [ i \in 1..Len(profiles) |->
                          IF profiles[i].id = user_id THEN ProfileRow(user_id)
                          ELSE profiles[i] ]
                 ELSE Append(profiles, ProfileRow(user_id)),
             workspaces |-> b.workspaces, channels |-> b.channels,
             members |-> b.members, ret |-> ProfileRow(user_id),
             err |-> b.err, joins |-> b.joins ] :
             b \in ensure_default_workspace_and_channel(ws, chans, members,
                                                        user_id, failAt) }

\* a deployment nobody has logged into
InitFresh ==
    /\ now = StartTime
    /\ messages = << >>
    /\ message_reactions = NoRows
    /\ workspaces = << >>
    /\ channels = << >>
    /\ channel_members = NoRows
    /\ user_profiles = << >>
    /\ FreshSessions({0})
    /\ ensuring = NoCalls
    /\ last = [op |-> "init"]

\* the sidebar events that change the membership
MemberEvents(chans) ==
    { [type |-> "none"], [type |-> "create", name |-> "random"] }
    \cup { [type |-> "join", id |-> c.id] :
             c \in { x \in Range(chans) : ~x.is_private } }

\* One run of the script, down to the sidebar (lines 606-729), in any
\* session of user_id: the profile and the bootstrap, the automatic join of
\* channel 1, then a Create Channel or a Join click.  A Join button is
\* drawn from the channel list read before the click, so the user may be a
\* member by the time join_channel runs.
SidebarRun(user_id, okUpsert, failAt, ev, ok) ==
    /\ ev.type = "create" => Len(channels) < MaxChannels
    /\ \E p \in create_or_update_user_profile(user_profiles, workspaces, channels,
                    channel_members, user_id, okUpsert, failAt) :
       LET \* the test of line 635 does not depend on the order of the rows
           chs == CHOOSE c \in get_user_channels(p.channels, p.members,
                                                  user_id, TRUE) : TRUE
           noGeneral == \A i \in 1..Len(chs) : chs[i].name # "general"
           auto == IF noGeneral
                   THEN LET j == JoinCall(p.members, user_id, GeneralChannelId, TRUE)
                        IN  [members |-> j.members, joins |-> << j.rec >>]
                   ELSE [members |-> p.members, joins |-> << >>]
           made == IF ev.type = "create"
                   THEN create_channel(p.channels, auto.members, user_id,
                                       DefaultWorkspaceId, ev.name, ok)
                   ELSE IF ev.type = "join"
                   THEN LET j == JoinCall(auto.members, user_id, ev.id, ok)
                        IN  [ channels |-> p.channels, members |-> j.members,
                              joins |-> << j.rec >> ]
                   ELSE [ channels |-> p.channels, members |-> auto.members,
                          joins |-> << >> ]
       IN  /\ ev \in MemberEvents(p.channels)
           /\ user_profiles' = p.profiles
           /\ workspaces' = p.workspaces
           /\ channels' = made.channels
           /\ channel_members' = made.members
           /\ last' = [ op |-> "sidebar", user |-> user_id,
                        joins |-> p.joins \o auto.joins \o made.joins ]
    /\ UNCHANGED << ensuring, now, messages, message_reactions, session >>

MemberEventsAll ==
    { [type |-> "none"], [type |-> "create", name |-> "random"] }
    \cup { [type |-> "join", id |-> ToString(i)] : i \in 1..MaxChannels }

\* a flag is drawn only where the run makes the call it is about
NextMembership ==
    \E u \in Users : \E okUpsert \in BOOLEAN :
    \E failAt \in IF okUpsert THEN 0..5 ELSE {0} :
    \E ev \in MemberEventsAll :
    \E ok \in IF ev.type = "none" THEN {TRUE} ELSE BOOLEAN :
        SidebarRun(u, okUpsert, failAt, ev, ok)

SpecMembership == InitFresh /\ [][NextMembership]_vars

\* -------------------------------------------------------------------- reads
\* Three users write to the general channel and to each other; sessions
\* call the read functions.  Some users have no user_profiles row: their
\* upsert failed (create_or_update_user_profile returned None).
Authors == Users \cup {"C"}

ProfiledSets == { Authors, {"A"} }

\* the limits the read functions are called with
Limits == { 1, DefaultLimit }

InitReads ==
    /\ now = StartTime
    /\ messages = << >>
    /\ message_reactions = NoRows
    /\ workspaces = << [ id |-> DefaultWorkspaceId, name |-> "Default Workspace",
                         created_by |-> "A" ] >>
    /\ channels = << [ id |-> GeneralChannelId, workspace_id |-> DefaultWorkspaceId,
                       name |-> "general", created_by |-> "A",
                       is_private |-> FALSE ] >>
    /\ channel_members \in
           { [ r \in { [user_id |-> u, channel_id |-> GeneralChannelId] :
                         u \in Authors } |-> 1 ] }
    /\ user_profiles \in
           { SelectSeq(<< ProfileRow("A"), ProfileRow("B"), ProfileRow("C") >>,
                       LAMBDA p : p.id \in S) : S \in ProfiledSets }
    /\ FreshSessions({0})
    /\ ensuring = NoCalls
    /\ last = [op |-> "init"]

\* the send handler of any user: its effect on the tables
StorePost(user_id, target, content) ==
    /\ SendGuard([type |-> "send", content |-> content])
    /\ Len(messages) < MaxStored
    /\ \/ /\ target.kind = "channel"
          /\ MemberDuplicateKey(channel_members, user_id, target.id)
          /\ messages' = send_message(messages, user_id, target.id, content,
                                      now, TRUE).messages
       \/ /\ target.kind = "dm"
          /\ target.id # user_id
          /\ messages' = send_direct_message(messages, user_id, target.id,
                                             content, now, TRUE).messages
    /\ last' = [op |-> "store_post", user |-> user_id]
    /\ UNCHANGED << ensuring, now, message_reactions, channel_members, channels,
                    workspaces, user_profiles, session >>

ChannelIds == { channels[i].id : i \in 1..Len(channels) }

\* where the users of this specification write: A and B to the general
\* channel and to each other, C to A
ReadTargets(user_id) ==
    IF user_id = "C" THEN { [kind |-> "dm", id |-> "A"] }
    ELSE { [kind |-> "channel", id |-> c.id] : c \in Range(channels) }
         \cup { [kind |-> "dm", id |-> u] : u \in Users }

\* a call of get_channel_messages (line 769)
ListChannel(channel_id, limit, ok, failed) ==
    /\ \E r \in get_channel_messages(messages, user_profiles, channel_id,
                                     limit, ok, failed) :
           /\ failed \subseteq 1..Len(r.ret)
           /\ last' = [ op |-> "get_channel_messages",
                        channel_id |-> channel_id, limit |-> limit,
                        ok |-> ok, failed |-> failed,
                        ret |-> r.ret, err |-> r.err ]
    /\ UNCHANGED << ensuring, now, tables, session >>

\* a call of get_direct_messages for two stored users (line 772)
ListDirect(user_id, other_user_id, limit, ok, failed) ==
    /\ user_id # other_user_id
    /\ \E r \in get_direct_messages(messages, user_profiles, EmptyDict,
                                    user_id, other_user_id, limit, ok, failed) :
           /\ failed \subseteq 1..Len(r.ret)
           /\ last' = [ op |-> "get_direct_messages", user_id |-> user_id,
                        other_user_id |-> other_user_id, limit |-> limit,
                        ok |-> ok, failed |-> failed,
                        ret |-> r.ret, err |-> r.err ]
    /\ UNCHANGED << ensuring, now, tables, session >>

\* a call of get_user_channels (line 632)
ListMemberships(user_id, ok) ==
    /\ \E chs \in get_user_channels(channels, channel_members, user_id, ok) :
           last' = [ op |-> "get_user_channels", user_id |-> user_id,
                     ok |-> ok, ret |-> chs ]
    /\ UNCHANGED << ensuring, now, tables, session >>

NextReads ==
    \/ Tick
    \/ \E u \in Authors : \E target \in ReadTargets(u) :
           StorePost(u, target, <<"h">>)
    \/ \E c \in ChannelIds : \E limit \in Limits : \E ok \in BOOLEAN :
       \E failed \in SUBSET (1..MaxStored) : ListChannel(c, limit, ok, failed)
    \/ \E a \in Users : \E b \in Authors : \E limit \in Limits :
       \E ok \in BOOLEAN : \E failed \in SUBSET (1..MaxStored) :
           ListDirect(a, b, limit, ok, failed)
    \/ \E ok \in BOOLEAN : ListMemberships("A", ok)
    \/ \E okChans \in BOOLEAN : \E okRead \in BOOLEAN :
           ScriptRun("A", [type |-> "none"], okChans, okRead, TRUE)
    \/ AddReaction("B", "1", "heart", TRUE)
    \/ \E ok \in BOOLEAN : \E failed \in SUBSET {1} :
           ShowReactions("1", ok, failed)

SpecReads == InitReads /\ [][NextReads]_vars

\* ---------------------------------------------------------------- bootstrap
\* The first logins.  The calls of ensure_default_workspace_and_channel by
\* two sessions are separate requests to the store and interleave between
\* one request and the next; ensuring[u] holds the position of the call of
\* user u and the ids it has read so far.

\* the channel name is unique within its workspace (the store's constraint)
ChannelDuplicateKey(chans, workspace_id, name) ==
    \E c \in Range(chans) : c.workspace_id = workspace_id /\ c.name = name

At(u, pc) == ensuring[u].pc = pc

Goto(u, pc, workspace_id, channel_id) ==
    ensuring' = [ ensuring EXCEPT ![u] = [ pc |-> pc, workspace_id |-> workspace_id,
                                         channel_id |-> channel_id ] ]

Step(u, line) ==
    last' = [ op |-> "ensure_default_workspace_and_channel", user |-> u,
              line |-> line ]

\* line 200: the select by name; lines 202, 215
LookupWorkspace(u) ==
    /\ At(u, "idle")
    /\ LET found == { w \in Range(workspaces) : w.name = "Default Workspace" }
       IN  IF found = {}
           THEN Goto(u, "insert_workspace", None, None)
           ELSE \E w \in found : Goto(u, "lookup_channel", w.id, None)
    /\ Step(u, 200)
    /\ UNCHANGED << now, tables, session >>

\* lines 204-211: the insert of the workspace
InsertWorkspace(u) ==
    /\ At(u, "insert_workspace")
    /\ LET row == [ id |-> NextId(workspaces), name |-> "Default Workspace",
                    created_by |-> u ]
       IN  /\ workspaces' = Append(workspaces, row)
           /\ Goto(u, "lookup_channel", row.id, None)
    /\ Step(u, 204)
    /\ UNCHANGED << now, messages, message_reactions, channel_members, channels,
                    user_profiles, session >>

\* line 218: the select of the general channel of the workspace; lines 220, 234
LookupChannel(u) ==
    /\ At(u, "lookup_channel")
    /\ LET wid == ensuring[u].workspace_id
           general == { c \in Range(channels) :
                          c.name = "general" /\ c.workspace_id = wid }
       IN  IF general = {}
           THEN Goto(u, "insert_channel", wid, None)
           ELSE \E c \in general : Goto(u, "join", wid, c.id)
    /\ Step(u, 218)
    /\ UNCHANGED << now, tables, session >>

\* lines 222-230: the insert of the general channel; a refused insert raises
\* and line 238 ends the call
InsertChannel(u) ==
    /\ At(u, "insert_channel")
    /\ LET wid == ensuring[u].workspace_id
           row == [ id |-> NextId(channels), workspace_id |-> wid,
                    name |-> "general", created_by |-> u, is_private |-> FALSE ]
       IN  IF ChannelDuplicateKey(channels, wid, "general")
           THEN /\ channels' = channels
                /\ Goto(u, "idle", None, None)
           ELSE /\ channels' = Append(channels, row)
                /\ Goto(u, "join", wid, row.id)
    /\ Step(u, 222)
    /\ UNCHANGED << now, messages, message_reactions, channel_members,
                    workspaces, user_profiles, session >>

\* lines 232, 236: join_channel, and the call returns
JoinGeneral(u) ==
    /\ At(u, "join")
    /\ channel_members' =
           join_channel(channel_members, u, ensuring[u].channel_id, TRUE).members
    /\ Goto(u, "idle", None, None)
    /\ Step(u, 236)
    /\ UNCHANGED << now, messages, message_reactions, channels, workspaces,
                    user_profiles, session >>

\* A call of create_or_update_user_profile (line 606) that no other session
\* interleaves with, with what it returned and showed.  failAt names the
\* request of ensure_default_workspace_and_channel the store fails: 1 and 2
\* the select and the insert of the workspace, 3 and 4 those of the channel,
\* 5 the insert of join_channel, 0 none.
ProfileRun(u, okUpsert, failAt) ==
    /\ \A v \in Users : At(v, "idle")
    /\ \E p \in create_or_update_user_profile(user_profiles, workspaces, channels,
                    channel_members, u, okUpsert, failAt) :
           /\ user_profiles' = p.profiles
           /\ workspaces' = p.workspaces
           /\ channels' = p.channels
           /\ channel_members' = p.members
           /\ last' = [ op |-> "create_or_update_user_profile", user |-> u,
                        okUpsert |-> okUpsert, failAt |-> failAt,
                        ret |-> p.ret, err |-> p.err ]
    /\ UNCHANGED << now, messages, message_reactions, session, ensuring >>

NextBootstrap ==
    \/ \E u \in Users :
           \/ LookupWorkspace(u)
           \/ InsertWorkspace(u)
           \/ LookupChannel(u)
           \/ InsertChannel(u)
           \/ JoinGeneral(u)
    \/ \E u \in Users : \E okUpsert \in BOOLEAN :
       \E failAt \in IF okUpsert THEN 0..5 ELSE {0} :
           ProfileRun(u, okUpsert, failAt)

SpecBootstrap == InitFresh /\ [][NextBootstrap]_vars

\* ------------------------------------------------------------------ clicks
\* A session in front of the general channel, which holds a message of A and
\* one of B, or of a demo conversation: it clicks the reaction buttons, while
\* B reacts to the stored messages from another session.
InitClicks ==
    /\ now = StartTime
    /\ messages = send_message(
                     send_message(<< >>, "A", GeneralChannelId, <<"h">>,
                                  StartTime, TRUE).messages,
                     "B", GeneralChannelId, <<"h">>, StartTime, TRUE).messages
    /\ message_reactions = NoRows
    /\ BootstrappedTables
    /\ FreshSessions(IdleFor)
    /\ ensuring = NoCalls
    /\ last = [op |-> "init"]

\* the sidebar buttons and the reaction buttons of the session
ClickEvents(user_id) ==
    { e \in Events(user_id) :
        \/ e.type = "none"
        \/ e.type = "channel" /\ e.id = GeneralChannelId
        \/ e.type = "dm" /\ e.id = "a1b2c3d4-e5f6-7890-abcd-ef1234567890" }
    \cup ReactEvents(user_id)

NextClicks ==
    \/ Tick
    \/ \E u \in Sessions : \E ev \in ClickEvents(u) :
           ScriptRun(u, ev, TRUE, TRUE, TRUE)
    \/ \E m \in MessageIds : \E e \in Emojis : AddReaction("B", m, e, TRUE)

SpecClicks == InitClicks /\ [][NextClicks]_vars

\* ================================================================== claims

IdsOf(rows) == { rows[i].id : i \in 1..Len(rows) }

\* the ids of the messages of the demo conversations of all sessions
DemoIds ==
    UNION { UNION { IdsOf(demo_messages[u][k]) : k \in DOMAIN demo_messages[u] } :
            u \in Sessions }

\* the last run of the script stored a message of the kind named
PostedToChannel ==
    last.op = "run" /\ Truthy(last.sent) /\ last.sent.recipient_id = None

PostedToDemo ==
    last.op = "run" /\ Truthy(last.sent)
    /\ last.sent.recipient_id \in demo_user_ids

\* C1 (as claimed): right after a successful post to a channel, the list of
\* that channel read with the default limit ends with the posted message,
\* however many messages the channel held.
C1_PostedMessageIsLastListed ==
    PostedToChannel =>
        /\ view[last.user] # << >>
        /\ Last(view[last.user]).id = last.sent.id

\* C2 (as claimed): a Send whose text is empty or only whitespace ends in a
\* ValidationError shown to the user, and stores no message.
C2_BlankPostIsValidationError ==
    (last.op = "run" /\ last.blank) =>
        /\ "ValidationError" \in Range(last.err)
        /\ ~Truthy(last.sent)

\* C3: message_reactions never holds two rows with the same (message_id,
\* user_id, emoji), and an add_reaction the store answered leaves exactly
\* one row of its triple, whether or not the triple was there before.
C3_OneRowPerReaction ==
    /\ \A r \in DOMAIN message_reactions : message_reactions[r] = 1
    /\ (last.op = "add_reaction" /\ last.ok) =>
           LET row == [ message_id |-> last.message_id,
                        user_id |-> last.user_id, emoji |-> last.emoji ]
           IN  row \in DOMAIN message_reactions /\ message_reactions[row] = 1

\* an add_reaction of a stored triple was answered by the store
C3_Witness ==
    last.op = "add_reaction" /\ last.ok /\ last.existed
    /\ BagSize(message_reactions) >= 2

\* C4: add_reaction of a stored triple and remove_reaction of a triple that
\* is not stored raise nothing, show no error and leave message_reactions
\* as it was.
C4_DuplicateAddAndMissingRemoveAreSilent ==
    [][ ( \/ last'.op = "add_reaction" /\ last'.existed
          \/ last'.op = "remove_reaction" /\ ~last'.existed )
        => /\ message_reactions' = message_reactions
           /\ last'.err = << >>
           /\ ~last'.raised ]_vars

\* a remove_reaction of a triple that is not stored, other rows being stored
C4_Witness ==
    last.op = "remove_reaction" /\ last.ok /\ ~last.existed
    /\ last.ret = TRUE /\ BagSize(message_reactions) >= 1

\* C5: channel_members never holds two rows with the same (user_id,
\* channel_id), and every join the store answered, whichever part of the
\* script made it, leaves exactly one row of its pair.
C5_OneRowPerMembership ==
    /\ \A r \in DOMAIN channel_members : channel_members[r] = 1
    /\ last.op = "sidebar" =>
           \A i \in 1..Len(last.joins) :
               LET j == last.joins[i]
                   row == [user_id |-> j.user_id, channel_id |-> j.channel_id]
               IN  (j.ret \/ j.dup) =>
                       row \in DOMAIN channel_members /\ channel_members[row] = 1

\* a run of the script joined a channel its user was a member of
C5_Witness ==
    last.op = "sidebar"
    /\ \E i \in 1..Len(last.joins) : last.joins[i].dup
    /\ BagSize(channel_members) >= 2

\* C6 (as claimed): a join that meets the duplicate key returns the success
\* result, as a first join does, and shows no error.
C6_DuplicateJoinReportsSuccess ==
    last.op = "sidebar" =>
        \A i \in 1..Len(last.joins) :
            last.joins[i].dup =>
                last.joins[i].ret = TRUE /\ last.joins[i].err = << >>

\* C7: no message of a demo conversation is in a result of
\* get_channel_messages, for any channel, or in a result of the stored
\* path of get_direct_messages, and no stored message is in the list of a
\* demo conversation.
C7_DemoOverlayIsolation ==
    /\ \A c \in ChannelIds :
           \A r \in get_channel_messages(messages, user_profiles, c,
                                         DefaultLimit, TRUE, {}) :
               IdsOf(r.ret) \cap DemoIds = {}
    /\ \A a \in Users : \A b \in Users :
           \A r \in get_direct_messages(messages, user_profiles, EmptyDict,
                                        a, b, DefaultLimit, TRUE, {}) :
               IdsOf(r.ret) \cap DemoIds = {}
    /\ \A u \in Sessions : \A d \in demo_user_ids :
           \A r \in get_direct_messages(messages, user_profiles,
                                        demo_messages[u], u, d,
                                        DefaultLimit, TRUE, {}) :
               IdsOf(r.ret) \cap IdsOf(messages) = {}

\* a demo conversation holds a posted message while the table holds a
\* channel message and a direct message
C7_Witness ==
    /\ \E u \in Sessions : \E k \in DOMAIN demo_messages[u] :
           Len(demo_messages[u][k]) > 2
    /\ messages # << >>

\* C8 (as claimed): a run of the script that shows a demo conversation
\* (lists it, renders it, posts to it) queries no table.
C8_DemoConversationQueriesNoTable ==
    ( /\ last.op = "run"
      /\ view_mode[last.user] = "dm"
      /\ current_dm_user[last.user] \in demo_user_ids )
    => last.db = {}

\* the messages of user_id in the table
StoredBy(user_id) ==
    { i \in 1..Len(messages) : messages[i].user_id = user_id }

\* C9: a demo conversation is its two seeded greetings, authored by the
\* demo identity, followed by the posts of the session's user, in
\* ascending created_at; every post of the session added exactly one
\* message, and right after a post to a demo identity the list shown ends
\* with the posted message, authored by the user.
C9_DemoConversationGrowsByPosts ==
    \A u \in Sessions :
        /\ \A d \in demo_user_ids :
               LET key == conversation_key(u, d)
                   list == demo_messages[u][key]
               IN  key \in DOMAIN demo_messages[u] =>
                       /\ Len(list) >= 2
                       /\ list[1].id = "demo-init-1" /\ list[1].user_id = d
                       /\ list[2].id = "demo-init-2" /\ list[2].user_id = d
                       /\ \A i \in 3..Len(list) : list[i].user_id = u
                       /\ \A i \in 1..(Len(list) - 1) :
                              list[i].created_at <= list[i + 1].created_at
        /\ SumOver(DOMAIN demo_messages[u],
                   [ k \in DOMAIN demo_messages[u] |->
                       Len(demo_messages[u][k]) - 2 ])
           + Cardinality(StoredBy(u)) = message_count[u]
        /\ (PostedToDemo /\ last.user = u) =>
               LET key == conversation_key(u, last.sent.recipient_id)
               IN  /\ view[u] = demo_messages[u][key]
                   /\ Last(view[u]).id = last.sent.id
                   /\ Last(view[u]).user_id = u
                   /\ Last(view[u]).content = last.sent.content

\* a demo conversation after two posts
C9_Witness ==
    /\ PostedToDemo
    /\ \E k \in DOMAIN demo_messages[last.user] :
           Len(demo_messages[last.user][k]) = 4

\* C10: after get_message_reactions of a message and the grouping loop,
\* reaction_counts has an entry for exactly the emoji some user holds on
\* the message, and the entry is the number of distinct users holding it.
C10_CountIsDistinctReactors ==
    (last.op = "get_message_reactions" /\ last.ok) =>
        \A e \in Emojis :
            LET holders == { r.user_id : r \in
                               { x \in DOMAIN message_reactions :
                                   x.message_id = last.message_id /\ x.emoji = e } }
            IN  IF holders = {}
                THEN e \notin DOMAIN last.reaction_counts
                ELSE /\ e \in DOMAIN last.reaction_counts
                     /\ last.reaction_counts[e] = Cardinality(holders)

\* a message two users reacted to with the same emoji, another message
\* being reacted to as well
C10_Witness ==
    /\ last.op = "get_message_reactions" /\ last.ok
    /\ \E e \in DOMAIN last.reaction_counts : last.reaction_counts[e] = 2
    /\ \E x \in DOMAIN message_reactions : x.message_id # last.message_id

\* C11 (as claimed): two calls of get_channel_messages for the same channel
\* and limit, both answered by the store and with no write between them,
\* return the same sequence: the same messages in the same order with the
\* same decoration, also when messages share a created_at.
C11_RepeatedListIsIdentical ==
    [][ ( /\ last.op = "get_channel_messages"
          /\ last'.op = "get_channel_messages"
          /\ last'.channel_id = last.channel_id
          /\ last'.limit = last.limit
          /\ last.ok /\ last'.ok
          /\ last.failed = {} /\ last'.failed = {} )
        => last'.ret = last.ret ]_vars

\* created_at never decreases along a list of messages
Ascending(rows) ==
    \A i \in 1..(Len(rows) - 1) : rows[i].created_at <= rows[i + 1].created_at

\* C12: every list a session shows, and every result get_channel_messages
\* and get_direct_messages (stored path and demo conversation) can return
\* in a reachable state, is non-decreasing in created_at from its first
\* element to its last.
C12_ListsAscendInCreatedAt ==
    /\ \A u \in Sessions : Ascending(view[u])
    /\ \A c \in ChannelIds : \A limit \in Limits :
           \A r \in get_channel_messages(messages, user_profiles, c, limit,
                                         TRUE, {}) : Ascending(r.ret)
    /\ \A a \in Users : \A b \in Users \cup demo_user_ids : \A limit \in Limits :
           \A r \in get_direct_messages(messages, user_profiles,
                        IF a \in Sessions THEN demo_messages[a] ELSE EmptyDict,
                        a, b, limit, TRUE, {}) : Ascending(r.ret)

\* a session shows channel messages stored at different times
C12_Witness ==
    \E u \in Sessions :
        /\ last.op = "run" /\ last.user = u
        /\ view_mode[u] = "channel"
        /\ Len(view[u]) >= 2
        /\ view[u][1].created_at < view[u][Len(view[u])].created_at

\* C13 (as claimed): the list of the active channel a run shows holds at
\* most DefaultLimit messages, and when the channel holds more, the
\* messages shown are the most recent ones: no message left out is newer
\* than a message shown.
C13_ListIsMostRecentWindow ==
    (last.op = "run" /\ view_mode[last.user] = "channel") =>
        LET shown == view[last.user]
            hits == { m \in Range(messages) :
                        m.channel_id = current_channel[last.user] }
        IN  /\ Len(shown) <= DefaultLimit
            /\ Cardinality(hits) > DefaultLimit =>
                   \A m \in hits :
                       m.id \notin IdsOf(shown) =>
                           \A i \in 1..Len(shown) :
                               m.created_at <= shown[i].created_at

\* the stored direct messages between two users, in either direction
Between(user_id, other_user_id) ==
    { m \in Range(messages) :
        /\ m.channel_id = None
        /\ \/ m.user_id = user_id /\ m.recipient_id = other_user_id
           \/ m.user_id = other_user_id /\ m.recipient_id = user_id }

\* C14: a get_direct_messages(A, B) the store answered, A and B stored
\* users, returns only stored messages without a channel whose author and
\* recipient are A and B in either direction, as many of them as the limit
\* allows, and what it returns is a possible result of
\* get_direct_messages(B, A) with the same limit.
C14_DirectListIsThePair ==
    (last.op = "get_direct_messages" /\ last.ok) =>
        LET a == last.user_id
            b == last.other_user_id
            both == Between(a, b)
        IN  /\ \A i \in 1..Len(last.ret) :
                   /\ last.ret[i].channel_id = None
                   /\ << last.ret[i].user_id, last.ret[i].recipient_id >>
                          \in { << a, b >>, << b, a >> }
                   /\ \E m \in both : m.id = last.ret[i].id
            /\ Cardinality(IdsOf(last.ret)) = Len(last.ret)
            /\ Len(last.ret) = IF Cardinality(both) <= last.limit
                               THEN Cardinality(both) ELSE last.limit
            /\ last.ret \in
                   { r.ret : r \in get_direct_messages(messages, user_profiles,
                                       EmptyDict, b, a, last.limit, TRUE,
                                       last.failed) }

\* the list of a pair leaves out a stored message (a channel message or a
\* direct message with a third user) and returns one sent to the caller
C14_Witness ==
    /\ last.op = "get_direct_messages" /\ last.ok
    /\ last.limit = DefaultLimit
    /\ Len(last.ret) = 1 /\ Len(messages) = 2
    /\ last.ret[1].recipient_id = last.user_id

\* the profile the decoration must give to position i of a result: the
\* stored row of the author, or the placeholder when there is none or the
\* lookup raised
ExpectedProfile(user_id, i, failed) ==
    IF i \notin failed /\ \E p \in Range(user_profiles) : p.id = user_id
    THEN CHOOSE p \in Range(user_profiles) : p.id = user_id
    ELSE UnknownProfile

\* the number of rows a list call with this limit returns out of n
Capped(n, limit) == IF n <= limit THEN n ELSE limit

C16_RefreshAtInterval ==
    [][ \A u \in Sessions :
          ( /\ last'.op = "run" /\ last'.user = u
            /\ \/ view_mode'[u] = "channel" /\ current_channel'[u] # None
               \/ view_mode'[u] = "dm" /\ current_dm_user'[u] # None )
          => last_refresh'[u] =
                 IF now - last_refresh[u] >= RefreshInterval
                 THEN now ELSE last_refresh[u] ]_vars

\* C17 (as claimed): right after a post of the session's user succeeded
\* (channel message, direct message or demo message), the conversation is
\* read again in the same run and the list shown holds the new message.
C17_OwnPostIsShownAtOnce ==
    (last.op = "run" /\ last.posting /\ Truthy(last.sent)) =>
        last.sent.id \in IdsOf(view[last.user])

\* the ids the messages table can give
StoredIds == { ToString(i) : i \in 1..MaxPosts }

\* message id is stored in the conversation the session of u has active,
\* was written by another user, and is not in the list the session shows
Unseen(u, id) ==
    \E m \in Range(messages) :
        /\ m.id = id /\ m.user_id # u
        /\ \/ /\ view_mode[u] = "channel"
              /\ current_channel[u] # None
              /\ m.channel_id = current_channel[u]
           \/ /\ view_mode[u] = "dm"
              /\ current_dm_user[u] # None
              /\ m.channel_id = None
              /\ m.user_id = current_dm_user[u] /\ m.recipient_id = u
        /\ id \notin IdsOf(view[u])

\* C18 (as claimed, without its bound of RefreshInterval seconds): a
\* message another user stored in the conversation a session has active
\* is eventually in the list the session shows, unless the session leaves
\* the conversation, whether or not its user does anything.
C18_OtherPartyMessageIsObserved ==
    \A u \in Sessions : \A id \in StoredIds :
        Unseen(u, id) ~> ~Unseen(u, id)

\* ---------------------------------------------------------------------------
\* C19  A read the store fails to answer (the messages of a channel, a direct
\* conversation, the reactions of a message, the channels of a user) returns
\* the empty result with at most the handled error shown, never an exception;
\* a script run whose list read failed still completes and renders the empty
\* list.
C19_FailedReadIsEmpty ==
    /\ (last.op = "get_channel_messages" /\ ~last.ok)
           => last.ret = << >> /\ last.err = <<"Error fetching messages">>
    /\ (last.op = "get_direct_messages" /\ ~last.ok)
           => last.ret = << >>
              /\ last.err = <<"Error fetching direct messages">>
    /\ (last.op = "get_user_channels" /\ ~last.ok) => last.ret = << >>
    /\ (last.op = "get_message_reactions" /\ ~last.ok)
           => last.reactions = << >> /\ last.reaction_counts = << >>
    /\ last.op = "run"
           => /\ Range(last.err) \subseteq { "Error fetching channels",
                                            "Error fetching messages",
                                            "Error fetching direct messages" }
              /\ Range(last.err) \cap { "Error fetching messages",
                                       "Error fetching direct messages" } # {}
                     => view[last.user] = << >>

\* a run of the script has completed with the empty list although the shown
\* channel holds a message, because the list read failed
C19_Witness ==
    /\ last.op = "run"
    /\ "Error fetching messages" \in Range(last.err)
    /\ view[last.user] = << >>
    /\ \E i \in 1..Len(messages) :
           messages[i].channel_id = current_channel[last.user]
\* ---------------------------------------------------------------------------
\* C20  A post whose insert the store fails is reported (one send error is
\* shown, no message is returned), is attempted once, and leaves the table
\* messages, the demo overlay and message_count as they were.
SendErrors(err) ==
    Cardinality({ i \in 1..Len(err) :
                    err[i] \in { "Error sending message",
                                 "Error sending direct message" } })

C20_FailedPostChangesNothing ==
    [][ (last'.op = "run" /\ last'.posting /\ ~Truthy(last'.sent))
          => /\ SendErrors(last'.err) = 1
             /\ messages' = messages
             /\ demo_messages' = demo_messages
             /\ message_count' = message_count ]_vars

\* a run has posted, the store failed the insert, and the error is shown
C20_Witness ==
    /\ last.op = "run"
    /\ last.posting
    /\ ~Truthy(last.sent)
    /\ SendErrors(last.err) = 1
\* ---------------------------------------------------------------------------
\* C21  A call of create_or_update_user_profile whose upsert succeeds returns
\* the profile and shows no error, whichever request of
\* ensure_default_workspace_and_channel the store fails.
C21_BootstrapFailureIsSilent ==
    (last.op = "create_or_update_user_profile" /\ last.okUpsert)
        => Truthy(last.ret) /\ last.err = << >>
\* ---------------------------------------------------------------------------
\* C22  In every reachable state, two concurrent first logins included, at
\* most one workspace is named "Default Workspace" and each workspace has at
\* most one channel named "general".
DefaultWorkspaces == { i \in 1..Len(workspaces) : workspaces[i].name = "Default Workspace" }

GeneralChannels(workspace_id) ==
    { i \in 1..Len(channels) :
        channels[i].name = "general" /\ channels[i].workspace_id = workspace_id }

C22_OneDefaultWorkspaceOneGeneral ==
    /\ Cardinality(DefaultWorkspaces) <= 1
    /\ \A i \in DefaultWorkspaces :
           Cardinality(GeneralChannels(workspaces[i].id)) <= 1
\* ---------------------------------------------------------------------------
\* C23  Every message a post has created, in the table or in the overlay,
\* has exactly one of channel_id and recipient_id set: a post to a channel
\* has the channel and no recipient, a direct message the recipient and no
\* channel.
HasChannel(row) == "channel_id" \in DOMAIN row /\ row.channel_id # None

HasRecipient(row) == "recipient_id" \in DOMAIN row /\ row.recipient_id # None

\* the messages the posts have appended to the overlays
OverlayPosts ==
    UNION { UNION { { demo_messages[u][k][i] :
                        i \in { j \in 1..Len(demo_messages[u][k]) :
                                  demo_messages[u][k][j].created_at >= StartTime } } :
                    k \in DOMAIN demo_messages[u] } :
            u \in Sessions }

C23_ChannelXorRecipient ==
    /\ \A m \in Range(messages) \cup OverlayPosts :
           HasChannel(m) # HasRecipient(m)
    /\ (last.op = "run" /\ last.posting /\ Truthy(last.sent))
           => IF view_mode[last.user] = "channel"
              THEN HasChannel(last.sent) /\ ~HasRecipient(last.sent)
              ELSE HasRecipient(last.sent) /\ ~HasChannel(last.sent)

\* a post to a channel is stored and a post to a demo identity is in the
\* overlay
C23_Witness ==
    /\ \E m \in Range(messages) : HasChannel(m)
    /\ OverlayPosts # {}
\* ---------------------------------------------------------------------------
\* C24  add_reaction and remove_reaction of (message, user, emoji) leave every
\* other row of message_reactions as it was: the rows of other users, of
\* the same user with another emoji, and of other messages.
RowCount(bag, row) == IF row \in DOMAIN bag THEN bag[row] ELSE 0

C24_ReactionFrame ==
    [][ last'.op \in {"add_reaction", "remove_reaction"}
          => \A r \in DOMAIN message_reactions \cup DOMAIN message_reactions' :
                 r # [ message_id |-> last'.message_id, user_id |-> last'.user_id,
                       emoji |-> last'.emoji ]
                     => RowCount(message_reactions', r)
                        = RowCount(message_reactions, r) ]_vars

\* a user has removed a reaction while the same user holds another emoji on
\* the message and another user holds the same emoji on it
C24_Witness ==
    /\ last.op = "remove_reaction" /\ last.ok /\ last.existed
    /\ \E r \in DOMAIN message_reactions :
           /\ r.message_id = last.message_id
           /\ r.user_id = last.user_id
           /\ r.emoji # last.emoji
    /\ \E r \in DOMAIN message_reactions :
           /\ r.message_id = last.message_id
           /\ r.user_id # last.user_id
           /\ r.emoji = last.emoji
\* ---------------------------------------------------------------------------
\* C25  While a session shows a demo conversation, every message of it is
\* shown with no reactions.
ShownReactions(message_id) ==
    get_message_reactions(message_reactions, user_profiles, message_id, TRUE, {})

C25_DemoMessagesShowNoReactions ==
    \A u \in Sessions :
        (view_mode[u] = "dm" /\ current_dm_user[u] \in demo_user_ids)
            => \A i \in 1..Len(view[u]) :
                   ShownReactions(view[u][i].id) = { << >> }
\* ---------------------------------------------------------------------------
\* C26  Every conversation of an overlay starts with the two seeded
\* greetings, authored by the demo identity of the conversation and
\* addressed to the user, and no later message of it is a greeting.
SeedIds == {"demo-init-1", "demo-init-2"}

C26_OverlayStartsWithSeeds ==
    \A u \in Sessions : \A k \in DOMAIN demo_messages[u] :
        LET list == demo_messages[u][k]
        IN  /\ Len(list) >= 2
            /\ list[1].id = "demo-init-1" /\ list[2].id = "demo-init-2"
            /\ \A i \in 1..2 :
                   /\ list[i].user_id \in demo_user_ids
                   /\ list[i].recipient_id = u
                   /\ k = conversation_key(u, list[i].user_id)
            /\ \A i \in 3..Len(list) : list[i].id \notin SeedIds

\* an overlay conversation the user has posted to
C26_Witness ==
    \E u \in Sessions : \E k \in DOMAIN demo_messages[u] :
        /\ Len(demo_messages[u][k]) >= 3
        /\ demo_messages[u][k][3].user_id = u
\* ---------------------------------------------------------------------------
\* C27  A run of the script of a session with no conversation selected (no
\* active channel and no active DM user) triggers no refresh: it does not
\* fire the refresh check, leaves last_refresh alone and reads no list.
Idle(cc, dm) == cc = None /\ dm = None

C27_IdleRunDoesNotRefresh ==
    [][ \A u \in Sessions :
          ( /\ last'.op = "run" /\ last'.user = u
            /\ Idle(current_channel[u], current_dm_user[u])
            /\ Idle(current_channel'[u], current_dm_user'[u]) )
              => /\ ~last'.fired
                 /\ last_refresh'[u] = last_refresh[u]
                 /\ "messages" \notin last'.db ]_vars
\* ---------------------------------------------------------------------------
\* C28  A click on the button of an emoji a message has reactions with
\* removes the row (message, user, emoji) when the user holds it and adds it
\* when the user does not, and changes no other row; two clicks in a row
\* therefore restore the reactions.
C28_ClickTogglesOwnReaction ==
    [][ ( /\ last'.op = "run"
          /\ Truthy(last'.clicked)
          /\ last'.clicked.type = "toggle"
          /\ \E r \in DOMAIN message_reactions :
                 /\ r.message_id = last'.clicked.id
                 /\ r.emoji = last'.clicked.emoji )
          => LET key == [ message_id |-> last'.clicked.id,
                          user_id |-> last'.user,
                          emoji |-> last'.clicked.emoji ]
             IN  /\ RowCount(message_reactions', key)
                    = 1 - RowCount(message_reactions, key)
                 /\ \A r \in (DOMAIN message_reactions
                                \cup DOMAIN message_reactions') \ {key} :
                        RowCount(message_reactions', r)
                        = RowCount(message_reactions, r) ]_vars
\* ---------------------------------------------------------------------------
\* C29  A run started by a Send click with non-blank content, in a session
\* with a conversation active, calls the post operation in that run,
\* whatever the time since the last refresh; a run started by a click on a
\* reaction button of a message still shown calls the reaction operation.
C29_ClickIsNeverDropped ==
    [][ \A u \in Sessions :
          (last'.op = "run" /\ last'.user = u)
              => /\ ( /\ last'.send
                      /\ \/ view_mode[u] = "channel" /\ current_channel[u] # None
                         \/ view_mode[u] = "dm" /\ current_dm_user[u] # None )
                        => last'.posting
                 /\ ( /\ Truthy(last'.clicked)
                      /\ \E i \in 1..Len(view'[u]) :
                             view'[u][i].id = last'.clicked.id
                      /\ last'.clicked.type = "toggle"
                            => \E r \in DOMAIN message_reactions :
                                   /\ r.message_id = last'.clicked.id
                                   /\ r.emoji = last'.clicked.emoji )
                        => Truthy(last'.click) ]_vars
\* ---------------------------------------------------------------------------
\* C30  After every complete run of the script the session has at most one
\* active conversation: in view mode "dm" current_channel is unset, in view
\* mode "channel" current_dm_user is unset.
C30_OneActiveConversation ==
    \A u \in Sessions :
        last.op = "run" /\ last.user = u
            => /\ view_mode[u] = "dm" => current_channel[u] = None
               /\ view_mode[u] = "channel" => current_dm_user[u] = None
\* ---------------------------------------------------------------------------
\* C31  Within one conversation of an overlay no two messages have the same
\* id.
C31_OverlayIdsAreDistinct ==
    \A u \in Sessions : \A k \in DOMAIN demo_messages[u] :
        LET list == demo_messages[u][k]
        IN  \A i \in 1..Len(list) : \A j \in 1..Len(list) :
                list[i].id = list[j].id => i = j
====
